---- MODULE Spec2Model ----
(***************************************************************************)
(* Model of pkg/health-check/cmd.go: the dependency-aware cluster operator *)
(* health check.                                                           *)
(*                                                                         *)
(* Operator names are modelled as naturals; the order of the naturals is   *)
(* the lexical order sort.Strings gives the names.  A Go map is a function *)
(* whose DOMAIN is the map's key set; a Go slice is a sequence (nil and    *)
(* the empty slice are both << >>); the Go string "" is << >> for the      *)
(* messages and "" for the condition statuses.                             *)
(***************************************************************************)
EXTENDS Integers, Sequences, FiniteSets, TLC

\* ------------------------------------------------------------- bounds ----

\* The operator names of the model.
Names == {1, 2, 3}

\* Longest list of direct dependencies one operator declares.
MaxDirect == 2

\* Longest list of machines the machine API returns.
MaxMachines == 2

\* Longest list of nodes the cluster returns.
MaxNodes == 2

\* ------------------------------------------------------------ helpers ----

Range(s) == {s[i] : i \in DOMAIN s}

Min(S) == CHOOSE x \in S : \A y \in S : x <= y

\* Sequences over S without repeated elements, of length at most n.
RECURSIVE SeqsNoDup(_, _)
SeqsNoDup(S, n) ==
    IF n = 0 \/ S = {} THEN {<< >>}
    ELSE {<< >>} \cup UNION {{<<x>> \o t : t \in SeqsNoDup(S \ {x}, n - 1)} : x \in S}

\* All orders in which a Go map iteration can visit the key set S.
Perms(S) == {p \in SeqsNoDup(S, Cardinality(S)) : Len(p) = Cardinality(S)}

\* m[k] of a Go map[string][]string: the nil slice when k is no key.
MapGet(m, k) == IF k \in DOMAIN m THEN m[k] ELSE << >>

\* range over the keys of a set-like map followed by sort.Strings: the
\* ascending sequence of the elements of S.
RECURSIVE SortStrings(_)
SortStrings(S) ==
    IF S = {} THEN << >>
    ELSE LET m == Min(S) IN <<m>> \o SortStrings(S \ {m})

stringInSlice(str, slice) == \E i \in DOMAIN slice : slice[i] = str

\* ------------------------------------------------- expandDependencies ----

\* dfs and its loop over directDeps; st = [visited, resultSet] are the two
\* maps the Go code mutates through the recursion.
RECURSIVE dfs(_, _, _)
RECURSIVE dfsLoop(_, _, _, _)
dfsLoop(directDeps, i, deps, st) ==
    IF i > Len(directDeps) THEN st
    ELSE LET dep == directDeps[i]
             st1 == [st EXCEPT !.resultSet = @ \cup {dep}]
         IN  dfsLoop(directDeps, i + 1, deps, dfs(dep, deps, st1))

dfs(current, deps, st) ==
    IF current \in st.visited THEN st
    ELSE LET st1 == [st EXCEPT !.visited = @ \cup {current}]
         IN  IF current \in DOMAIN deps
             THEN dfsLoop(deps[current], 1, deps, st1)
             ELSE st1

\* Mutant: the direct dependencies only, no traversal.
getAllUpstreamDependenciesDirectOnly(op, deps) ==
    SortStrings(Range(MapGet(deps, op)))

\* Mutant: the result is not sorted ascending; the keys of resultSet come
\* out in descending order.
getAllUpstreamDependenciesDescending(op, deps) ==
    LET asc == SortStrings(dfs(op, deps, [visited |-> {}, resultSet |-> {}]).resultSet)
    IN  [i \in 1..Len(asc) |-> asc[Len(asc) + 1 - i]]

getAllUpstreamDependencies(op, deps) ==
    SortStrings(dfs(op, deps, [visited |-> {}, resultSet |-> {}]).resultSet)

coreSetOf(manualDeps) ==
    DOMAIN manualDeps \cup UNION {Range(manualDeps[k]) : k \in DOMAIN manualDeps}

expandDependencies(manualDeps) ==
    [op \in coreSetOf(manualDeps) |->
        IF op \in DOMAIN manualDeps
        THEN getAllUpstreamDependencies(op, manualDeps)
        ELSE << >>]

\* ---------------------------------------------------- TopologicalSort ----

\* The in-degree map after the two loops over operators (lines 331-343):
\* every pass of the loop over an occurrence of op adds one per dependency
\* of op that is in operators.
initInDegree(operators, dependencies) ==
    [op \in Range(operators) |->
        Cardinality({j \in DOMAIN operators : operators[j] = op})
        * Cardinality({i \in DOMAIN MapGet(dependencies, op) :
                          stringInSlice(MapGet(dependencies, op)[i], operators)})]

\* Mutant: the operators of in-degree 0 are sorted before they are queued.
seedQueueLexical(operators, inDegree) ==
    SortStrings({op \in Range(operators) : inDegree[op] = 0})

\* The queue seeded with the operators of in-degree 0, in the order of
\* operators (lines 346-351).
seedQueue(operators, inDegree) ==
    SelectSeq(operators, LAMBDA op : inDegree[op] = 0)

\* The inner loop over operators for one dequeued node (lines 364-371).
RECURSIVE reduceInDegree(_, _, _, _, _, _)
reduceInDegree(node, i, queue, inDegree, operators, dependencies) ==
    IF i > Len(operators) THEN [queue |-> queue, inDegree |-> inDegree]
    ELSE LET op == operators[i] IN
         IF stringInSlice(node, MapGet(dependencies, op))
         THEN LET d == inDegree[op] - 1 IN
              reduceInDegree(node, i + 1,
                             IF d = 0 THEN Append(queue, op) ELSE queue,
                             [inDegree EXCEPT ![op] = d],
                             operators, dependencies)
         ELSE reduceInDegree(node, i + 1, queue, inDegree, operators, dependencies)

\* Mutant: the dequeued node is put in front of the order, not at its end.
RECURSIVE kahnLoopPrepend(_, _, _, _, _)
kahnLoopPrepend(queue, sorted, inDegree, operators, dependencies) ==
    IF queue = << >> THEN sorted
    ELSE LET node == Head(queue)
             st   == reduceInDegree(node, 1, Tail(queue), inDegree,
                                    operators, dependencies)
         IN  kahnLoopPrepend(st.queue, <<node>> \o sorted, st.inDegree,
                             operators, dependencies)

\* The main loop (lines 354-372).
RECURSIVE kahnLoop(_, _, _, _, _)
kahnLoop(queue, sorted, inDegree, operators, dependencies) ==
    IF queue = << >> THEN sorted
    ELSE LET node == Head(queue)
             st   == reduceInDegree(node, 1, Tail(queue), inDegree,
                                    operators, dependencies)
         IN  kahnLoop(st.queue, Append(sorted, node), st.inDegree,
                      operators, dependencies)

\* Mutant: on a cycle the operators sorted so far are returned with the error.
TopologicalSortPartial(operators, dependencies) ==
    LET inDegree == initInDegree(operators, dependencies)
        sorted   == kahnLoop(seedQueue(operators, inDegree), << >>, inDegree,
                             operators, dependencies)
    IN  IF Len(sorted) # Len(operators)
        THEN [sorted |-> sorted, err |-> "dependency graph has a cycle"]
        ELSE [sorted |-> sorted, err |-> "nil"]

\* Mutant: the length of the order is not compared with len(operators).
TopologicalSortNoCycleCheck(operators, dependencies) ==
    LET inDegree == initInDegree(operators, dependencies)
        sorted   == kahnLoop(seedQueue(operators, inDegree), << >>, inDegree,
                             operators, dependencies)
    IN  [sorted |-> sorted, err |-> "nil"]

TopologicalSort(operators, dependencies) ==
    LET inDegree == initInDegree(operators, dependencies)
        sorted   == kahnLoop(seedQueue(operators, inDegree), << >>, inDegree,
                             operators, dependencies)
    IN  IF Len(sorted) # Len(operators)
        THEN [sorted |-> << >>, err |-> "dependency graph has a cycle"]
        ELSE [sorted |-> sorted, err |-> "nil"]

\* ---------------------------------------------------------------- state --

VARIABLES
    pc,                        \* position in Run, or in the graph harness
    operatorDependencies,      \* the direct-dependency table
    items,                     \* cluster operator records as listed
    operatorsMap,              \* cluster operator records not yet consumed
    finalOperatorDependencies, \* result of expandDependencies
    coreOperators,             \* operators argument of TopologicalSort
    dependencies,              \* dependencies argument of TopologicalSort
    sortedCoreOperators,       \* order returned by TopologicalSort
    sortErr,                   \* error returned by TopologicalSort
    finalOperators,            \* the list the evaluation loop walks
    idx,                       \* index of the next item of finalOperators
    failedOperators,           \* the failure set
    suite,                     \* the JUnit suite being filled
    report,                    \* what has been serialized
    ret,                       \* what Run returned
    startOp,                   \* op argument of getAllUpstreamDependencies
    callStack,                 \* the active calls of dfs, innermost last
    visited,                   \* visited map of getAllUpstreamDependencies
    resultSet,                 \* resultSet map of getAllUpstreamDependencies
    dfsLog,                    \* the operators dfs marked visited, in order
    upstream,                  \* result of getAllUpstreamDependencies
    machineList,               \* machines listed by checkMachineNodeConsistency
    runningMachineCount,       \* machines whose phase is running
    notRunningMachines,        \* the other machines
    nodeList,                  \* nodes listed by checkMachineNodeConsistency
    notReadyNodes              \* nodes not ready or not schedulable

vars == <<pc, operatorDependencies, items, operatorsMap, finalOperatorDependencies,
          coreOperators, dependencies, sortedCoreOperators, sortErr,
          finalOperators, idx, failedOperators, suite, report, ret,
          startOp, callStack, visited, resultSet, dfsLog, upstream,
          machineList, runningMachineCount, notRunningMachines,
          nodeList, notReadyNodes>>

\* The state of one call of getAllUpstreamDependencies.
traversalVars == <<startOp, callStack, visited, resultSet, dfsLog, upstream>>

\* The state of one call of checkMachineNodeConsistency.
machineNodeVars == <<machineList, runningMachineCount, notRunningMachines,
                     nodeList, notReadyNodes>>

auxVars == <<traversalVars, machineNodeVars>>

\* A list the client did not return (nil), and a list it returned.
NilList == [isNil |-> TRUE, Items |-> << >>]

SomeList(l) == [isNil |-> FALSE, Items |-> l]

\* No traversal is going on.
TraversalIdle ==
    /\ startOp = 0
    /\ callStack = << >>
    /\ visited = {}
    /\ resultSet = {}
    /\ dfsLog = << >>
    /\ upstream = << >>

\* checkMachineNodeConsistency has not listed anything.
MachineNodeIdle ==
    /\ machineList = NilList
    /\ runningMachineCount = 0
    /\ notRunningMachines = << >>
    /\ nodeList = NilList
    /\ notReadyNodes = << >>

\* Direct-dependency tables: any subset of Names as keys, each with a list
\* of at most MaxDirect distinct names, in any order.
DirectLists == SeqsNoDup(Names, MaxDirect)

DirectMaps == UNION {[K -> DirectLists] : K \in SUBSET Names}

emptySuite == [TestCases |-> << >>, NumTests |-> 0, NumFailed |-> 0, NumSkipped |-> 0]

noReport == [printed |-> FALSE, written |-> FALSE]

\* ------------------------------------------- graph functions harness ----

InitGraph ==
    /\ TraversalIdle
    /\ MachineNodeIdle
    /\ pc = "g_input"
    /\ operatorDependencies \in DirectMaps
    /\ items = << >>
    /\ operatorsMap = << >>
    /\ finalOperatorDependencies = << >>
    /\ coreOperators = << >>
    /\ dependencies = << >>
    /\ sortedCoreOperators = << >>
    /\ sortErr = "nil"
    /\ finalOperators = << >>
    /\ idx = 1
    /\ failedOperators = {}
    /\ suite = emptySuite
    /\ report = noReport
    /\ ret = "running"

runUnchanged == <<items, operatorsMap, finalOperators, idx, failedOperators, suite, report, ret>>

\* finalDeps := expandDependencies(manualDeps)
CallExpand ==
    /\ UNCHANGED auxVars
    /\ pc = "g_input"
    /\ finalOperatorDependencies' = expandDependencies(operatorDependencies)
    /\ pc' = "g_expanded"
    /\ UNCHANGED <<operatorDependencies, coreOperators, dependencies,
                   sortedCoreOperators, sortErr>>
    /\ UNCHANGED runUnchanged

\* TopologicalSort(operators, finalDeps) with operators the key domain of
\* the expanded map, listed in any order.
CallSortExpanded ==
    /\ UNCHANGED auxVars
    /\ pc = "g_expanded"
    /\ \E ops \in Perms(DOMAIN finalOperatorDependencies) :
          LET r == TopologicalSort(ops, finalOperatorDependencies) IN
          /\ coreOperators' = ops
          /\ dependencies' = finalOperatorDependencies
          /\ sortedCoreOperators' = r.sorted
          /\ sortErr' = r.err
    /\ pc' = "g_sorted_expanded"
    /\ UNCHANGED <<operatorDependencies, finalOperatorDependencies>>
    /\ UNCHANGED runUnchanged

\* TopologicalSort(operators, deps) with any list of distinct operators and
\* any dependency map (the table as written, not expanded).
CallSort ==
    /\ UNCHANGED auxVars
    /\ pc = "g_input"
    /\ \E ops \in SeqsNoDup(Names, Cardinality(Names)) :
          LET r == TopologicalSort(ops, operatorDependencies) IN
          /\ coreOperators' = ops
          /\ dependencies' = operatorDependencies
          /\ sortedCoreOperators' = r.sorted
          /\ sortErr' = r.err
    /\ pc' = "g_sorted"
    /\ UNCHANGED <<operatorDependencies, finalOperatorDependencies>>
    /\ UNCHANGED runUnchanged

NextGraph == CallExpand \/ CallSortExpanded \/ CallSort

SpecGraph == InitGraph /\ [][NextGraph]_vars

\* ------------------------------------------------------ cluster data ----

Cond(t, s) == [type |-> t, status |-> s]

ConditionList(a, d, p) ==
    <<Cond("Available", a), Cond("Degraded", d), Cond("Progressing", p)>>

\* status.conditions of the cluster operator records of the model: healthy,
\* degraded, Progressing unknown, a differently cased status, and a record
\* with no Progressing condition (whose status reads as the empty string).
Records ==
    { ConditionList("True", "False", "False"),
      ConditionList("True", "True", "False"),
      ConditionList("True", "False", "Unknown"),
      ConditionList("true", "False", "False"),
      <<Cond("Degraded", "False"), Cond("Available", "True")>> }

\* What the clusteroperators list can hold: a record for any of the names.
Clusters == UNION {[K -> Records] : K \in SUBSET Names}

\* The tables Run is model-checked with: the lists of DirectMaps written in
\* descending order.
RunMaps ==
    {m \in DirectMaps :
        \A k \in DOMAIN m : \A i, j \in DOMAIN m[k] : i < j => m[k][i] > m[k][j]}

\* objx.Map(nil): every Get of it yields the empty string.
NilMap == Cond("", "")

\* condition(cv, c): the first entry of status.conditions of that type.
condition(conds, c) ==
    LET M == {i \in DOMAIN conds : conds[i].type = c}
    IN  IF M = {} THEN NilMap ELSE conds[Min(M)]

\* condition(op, c).Get("status").String()
statusOf(conds, c) == condition(conds, c).status

\* Op of a finalOperators item: nil, or the record of the cluster.
NilOp == [isNil |-> TRUE, conditions |-> << >>]

SomeOp(conds) == [isNil |-> FALSE, conditions |-> conds]

\* ------------------------------------------------------------ tcAppend ---

tcName(opName) == <<"operator conditions", opName>>

tcAppend(s, name, tcFailureMsg, tcSkipMsg) ==
    LET tc == [Name          |-> name,
               FailureOutput |-> IF tcFailureMsg # << >> THEN tcFailureMsg ELSE << >>,
               SkipMessage   |-> IF tcFailureMsg = << >> /\ tcSkipMsg # << >>
                                 THEN tcSkipMsg ELSE << >>]
    IN  [s EXCEPT !.TestCases  = Append(@, tc),
                  !.NumFailed  = IF tcFailureMsg # << >> THEN @ + 1 ELSE @,
                  !.NumSkipped = IF tcFailureMsg = << >> /\ tcSkipMsg # << >>
                                 THEN @ + 1 ELSE @]

\* ----------------------------------------------------------------- Run ---

Init ==
    /\ TraversalIdle
    /\ MachineNodeIdle
    /\ pc = "connect"
    /\ operatorDependencies \in RunMaps
    /\ items = << >>
    /\ operatorsMap = << >>
    /\ finalOperatorDependencies = << >>
    /\ coreOperators = << >>
    /\ dependencies = << >>
    /\ sortedCoreOperators = << >>
    /\ sortErr = "nil"
    /\ finalOperators = << >>
    /\ idx = 1
    /\ failedOperators = {}
    /\ suite = emptySuite
    /\ report = noReport
    /\ ret = "running"

\* Lines 58-93: configuration and clients are there and the suite is created.
\* checkClusterVersionStable (line 76) only logs.  The test cases that
\* checkMachineNodeConsistency (line 88) puts in the suite are never read by
\* the operator check; suite.TestCases here holds the test cases recorded
\* from line 93 on.
Connect ==
    /\ UNCHANGED auxVars
    /\ pc = "connect"
    /\ pc' = "list"
    /\ UNCHANGED <<operatorDependencies, items, operatorsMap,
                   finalOperatorDependencies, coreOperators, dependencies,
                   sortedCoreOperators, sortErr, finalOperators, idx,
                   failedOperators, suite, report, ret>>

\* Lines 58-73: no kubeconfig, or a client cannot be built: return nil.
ConnectFail ==
    /\ UNCHANGED auxVars
    /\ pc = "connect"
    /\ pc' = "aborted"
    /\ ret' = "nil"
    /\ UNCHANGED <<operatorDependencies, items, operatorsMap,
                   finalOperatorDependencies, coreOperators, dependencies,
                   sortedCoreOperators, sortErr, finalOperators, idx,
                   failedOperators, suite, report>>

\* Lines 95-112: the cluster operators are listed and saved by name.
ListOperators ==
    /\ UNCHANGED auxVars
    /\ pc = "list"
    /\ \E c \in Clusters :
          /\ items' = c
          /\ operatorsMap' = c
    /\ pc' = "stage1"
    /\ UNCHANGED <<operatorDependencies, finalOperatorDependencies,
                   coreOperators, dependencies, sortedCoreOperators, sortErr,
                   finalOperators, idx, failedOperators, suite, report, ret>>

\* Lines 100-104: the list call fails: return nil.
ListFail ==
    /\ UNCHANGED auxVars
    /\ pc = "list"
    /\ pc' = "aborted"
    /\ ret' = "nil"
    /\ UNCHANGED <<operatorDependencies, items, operatorsMap,
                   finalOperatorDependencies, coreOperators, dependencies,
                   sortedCoreOperators, sortErr, finalOperators, idx,
                   failedOperators, suite, report>>

\* Mutant: the loop ranges over the core operators in lexical order
\* (coreOperators) and not over the sorted order.
coreItemsLexical(sortedOps, opsMap) ==
    LET lexical == SortStrings(Range(sortedOps)) IN
    [i \in 1..Len(lexical) |->
        [Name |-> lexical[i],
         Op   |-> IF lexical[i] \in DOMAIN opsMap
                  THEN SomeOp(opsMap[lexical[i]])
                  ELSE NilOp]]

\* Lines 140-155: one item per sorted core operator, with its record or nil.
coreItems(sortedOps, opsMap) ==
    [i \in 1..Len(sortedOps) |->
        [Name |-> sortedOps[i],
         Op   |-> IF sortedOps[i] \in DOMAIN opsMap
                  THEN SomeOp(opsMap[sortedOps[i]])
                  ELSE NilOp]]

\* Lines 158-163: one item per record left, in the order the map is ranged.
extraItems(order, opsMap) ==
    [i \in 1..Len(order) |-> [Name |-> order[i], Op |-> SomeOp(opsMap[order[i]])]]

\* Mutant: the consumed records are not deleted from operatorsMap.
leftOperatorsNoDelete(opsMap, sortedOps) == opsMap

\* Line 147: operatorsMap after the core operators are consumed from it.
leftOperators(opsMap, sortedOps) ==
    [k \in DOMAIN opsMap \ Range(sortedOps) |-> opsMap[k]]

\* Mutant: the operators left in the map are put before the core operators.
buildFinalOperatorsExtrasFirst(sortedOps, opsMap, left, order) ==
    extraItems(order, left) \o coreItems(sortedOps, opsMap)

\* Lines 135-163: the core items, then the items of the operators left.
buildFinalOperators(sortedOps, opsMap, left, order) ==
    coreItems(sortedOps, opsMap) \o extraItems(order, left)

\* Lines 115-165: the expanded map and the sorted core operators.  When the
\* sort fails the error is logged and Run returns nil (lines 126-129);
\* otherwise the final list is built: the core operators in order, consumed
\* from operatorsMap, then the operators left in it.
OrderOperators ==
    /\ UNCHANGED auxVars
    /\ pc = "stage1"
    /\ LET finalDeps == expandDependencies(operatorDependencies)
           core      == SortStrings(DOMAIN finalDeps)
           r         == TopologicalSort(core, finalDeps)
           left      == leftOperators(operatorsMap, r.sorted)
       IN  /\ finalOperatorDependencies' = finalDeps
           /\ coreOperators' = core
           /\ dependencies' = finalDeps
           /\ sortedCoreOperators' = r.sorted
           /\ sortErr' = r.err
           /\ IF r.err # "nil"
              THEN /\ pc' = "aborted"
                   /\ ret' = "nil"
                   /\ UNCHANGED <<operatorsMap, finalOperators>>
              ELSE /\ pc' = "eval"
                   /\ ret' = ret
                   /\ operatorsMap' = left
                   /\ \E order \in Perms(DOMAIN left) :
                         finalOperators' =
                            buildFinalOperators(r.sorted, operatorsMap, left, order)
    /\ idx' = 1
    /\ failedOperators' = {}
    /\ UNCHANGED <<operatorDependencies, items, suite, report>>

\* Mutant: only the first dependency of the item is looked up in the
\* failure set.
skipMsgOfFirstDepOnly(item, finalDeps, failed) ==
    IF item.Op.isNil
    THEN <<"not found in the cluster, skipping", item.Name>>
    ELSE LET deps == MapGet(finalDeps, item.Name)
         IN  IF deps = << >> \/ deps[1] \notin failed THEN << >>
             ELSE <<"Precondition operator failed, skipping", deps[1]>>

\* Mutant: any operator of the failure set makes the item skipped, whether
\* the item depends on it or not.
skipMsgOfAnyFailed(item, finalDeps, failed) ==
    IF item.Op.isNil
    THEN <<"not found in the cluster, skipping", item.Name>>
    ELSE IF failed = {} THEN << >>
         ELSE <<"Precondition operator failed, skipping", Min(failed)>>

\* Mutant: the dependencies are looked up before the nil test of the item.
skipMsgOfDepsFirst(item, finalDeps, failed) ==
    LET deps == MapGet(finalDeps, item.Name)
        F    == {i \in DOMAIN deps : deps[i] \in failed}
    IN  IF F # {}
        THEN <<"Precondition operator failed, skipping", deps[Min(F)]>>
        ELSE IF item.Op.isNil
             THEN <<"not found in the cluster, skipping", item.Name>>
             ELSE << >>

\* Lines 180-193: the skip message of an item, "" when it is not skipped.
skipMsgOf(item, finalDeps, failed) ==
    IF item.Op.isNil
    THEN <<"not found in the cluster, skipping", item.Name>>
    ELSE LET deps == MapGet(finalDeps, item.Name)
             F    == {i \in DOMAIN deps : deps[i] \in failed}
         IN  IF F = {} THEN << >>
             ELSE <<"Precondition operator failed, skipping", deps[Min(F)]>>

\* Mutant: Progressing is not looked at.
conditionsPassIgnoreProgressing(available, degraded, progressing) ==
    available = "True" /\ degraded = "False"

\* Line 211.
conditionsPass(available, degraded, progressing) ==
    available = "True" /\ degraded = "False" /\ progressing = "False"

\* Line 215.
failureMsgOf(opName, available, degraded, progressing) ==
    <<"Operator conditions", opName, available, degraded, progressing>>

InLoop == pc = "eval" /\ idx <= Len(finalOperators)

\* Mutant: an operator that is not found is put in the failure set.
EvalSkipNotFoundFails ==
    /\ UNCHANGED auxVars
    /\ InLoop
    /\ LET item    == finalOperators[idx]
           skipMsg == skipMsgOf(item, finalOperatorDependencies, failedOperators)
       IN  /\ skipMsg # << >>
           /\ suite' = tcAppend(suite, tcName(item.Name), << >>, skipMsg)
           /\ failedOperators' = IF item.Op.isNil
                                 THEN failedOperators \cup {item.Name}
                                 ELSE failedOperators
    /\ idx' = idx + 1
    /\ UNCHANGED <<pc, operatorDependencies, items, operatorsMap,
                   finalOperatorDependencies, coreOperators, dependencies,
                   sortedCoreOperators, sortErr, finalOperators, report, ret>>

\* Mutant: a skipped operator is put in the failure set.
EvalSkipMarksFailed ==
    /\ UNCHANGED auxVars
    /\ InLoop
    /\ LET item    == finalOperators[idx]
           skipMsg == skipMsgOf(item, finalOperatorDependencies, failedOperators)
       IN  /\ skipMsg # << >>
           /\ suite' = tcAppend(suite, tcName(item.Name), << >>, skipMsg)
           /\ failedOperators' = failedOperators \cup {item.Name}
    /\ idx' = idx + 1
    /\ UNCHANGED <<pc, operatorDependencies, items, operatorsMap,
                   finalOperatorDependencies, coreOperators, dependencies,
                   sortedCoreOperators, sortErr, finalOperators, report, ret>>

\* Lines 171-201: the item is skipped.
EvalSkip ==
    /\ UNCHANGED auxVars
    /\ InLoop
    /\ LET item    == finalOperators[idx]
           skipMsg == skipMsgOf(item, finalOperatorDependencies, failedOperators)
       IN  /\ skipMsg # << >>
           /\ suite' = tcAppend(suite, tcName(item.Name), << >>, skipMsg)
    /\ idx' = idx + 1
    /\ UNCHANGED <<pc, operatorDependencies, items, operatorsMap,
                   finalOperatorDependencies, coreOperators, dependencies,
                   sortedCoreOperators, sortErr, finalOperators,
                   failedOperators, report, ret>>

\* Lines 171-213: the item is not skipped and its conditions pass.
EvalPass ==
    /\ UNCHANGED auxVars
    /\ InLoop
    /\ LET item        == finalOperators[idx]
           skipMsg     == skipMsgOf(item, finalOperatorDependencies, failedOperators)
           available   == statusOf(item.Op.conditions, "Available")
           degraded    == statusOf(item.Op.conditions, "Degraded")
           progressing == statusOf(item.Op.conditions, "Progressing")
       IN  /\ skipMsg = << >>
           /\ conditionsPass(available, degraded, progressing)
           /\ suite' = tcAppend(suite, tcName(item.Name), << >>, << >>)
    /\ idx' = idx + 1
    /\ UNCHANGED <<pc, operatorDependencies, items, operatorsMap,
                   finalOperatorDependencies, coreOperators, dependencies,
                   sortedCoreOperators, sortErr, finalOperators,
                   failedOperators, report, ret>>

\* Lines 171-219: the item is not skipped and its conditions fail.
EvalFail ==
    /\ UNCHANGED auxVars
    /\ InLoop
    /\ LET item        == finalOperators[idx]
           skipMsg     == skipMsgOf(item, finalOperatorDependencies, failedOperators)
           available   == statusOf(item.Op.conditions, "Available")
           degraded    == statusOf(item.Op.conditions, "Degraded")
           progressing == statusOf(item.Op.conditions, "Progressing")
       IN  /\ skipMsg = << >>
           /\ ~conditionsPass(available, degraded, progressing)
           /\ suite' = tcAppend(suite, tcName(item.Name),
                                failureMsgOf(item.Name, available, degraded, progressing),
                                << >>)
           /\ failedOperators' = failedOperators \cup {item.Name}
    /\ idx' = idx + 1
    /\ UNCHANGED <<pc, operatorDependencies, items, operatorsMap,
                   finalOperatorDependencies, coreOperators, dependencies,
                   sortedCoreOperators, sortErr, finalOperators, report, ret>>

LoopDone == pc = "eval" /\ idx > Len(finalOperators)

\* Lines 222-239: the suite is serialized and printed, and written to a file
\* when JUnitDir is set; return nil.
Report ==
    /\ UNCHANGED auxVars
    /\ LoopDone
    /\ suite' = [suite EXCEPT !.NumTests = Len(suite.TestCases)]
    /\ \E JUnitDir \in {"", "junit"} :
          report' = [printed |-> TRUE, written |-> JUnitDir # ""]
    /\ pc' = "done"
    /\ ret' = "nil"
    /\ UNCHANGED <<operatorDependencies, items, operatorsMap,
                   finalOperatorDependencies, coreOperators, dependencies,
                   sortedCoreOperators, sortErr, finalOperators, idx,
                   failedOperators>>

\* Lines 222-228: the serialization fails: logged, return nil.
ReportFail ==
    /\ UNCHANGED auxVars
    /\ LoopDone
    /\ suite' = [suite EXCEPT !.NumTests = Len(suite.TestCases)]
    /\ pc' = "done"
    /\ ret' = "nil"
    /\ UNCHANGED <<operatorDependencies, items, operatorsMap,
                   finalOperatorDependencies, coreOperators, dependencies,
                   sortedCoreOperators, sortErr, finalOperators, idx,
                   failedOperators, report>>

Next ==
    \/ Connect \/ ConnectFail
    \/ ListOperators \/ ListFail
    \/ OrderOperators
    \/ EvalSkip \/ EvalPass \/ EvalFail
    \/ Report \/ ReportFail

Spec == Init /\ [][Next]_vars

\* ------------------------------- getAllUpstreamDependencies, by steps ----

\* One call of getAllUpstreamDependencies(op, deps) for a key op of any
\* direct-dependency table, taken statement by statement.  A frame of
\* callStack is one active call of dfs: current is its argument and i the
\* index in directDeps the loop is at, 0 before the visited test.
Frame(current, i) == [current |-> current, i |-> i]

Top == callStack[Len(callStack)]

Pop(stack) == SubSeq(stack, 1, Len(stack) - 1)

\* What the other actions of a traversal leave alone.
traversalUnchanged ==
    <<operatorDependencies, items, operatorsMap, finalOperatorDependencies,
      coreOperators, dependencies, sortedCoreOperators, sortErr,
      finalOperators, idx, failedOperators, suite, report, ret, machineNodeVars>>

InitTraversal ==
    /\ pc = "t_input"
    /\ operatorDependencies \in DirectMaps
    /\ items = << >>
    /\ operatorsMap = << >>
    /\ finalOperatorDependencies = << >>
    /\ coreOperators = << >>
    /\ dependencies = << >>
    /\ sortedCoreOperators = << >>
    /\ sortErr = "nil"
    /\ finalOperators = << >>
    /\ idx = 1
    /\ failedOperators = {}
    /\ suite = emptySuite
    /\ report = noReport
    /\ ret = "running"
    /\ TraversalIdle
    /\ MachineNodeIdle

\* Lines 287-289 and 300-303: expandDependencies calls
\* getAllUpstreamDependencies for a key of the table; the two maps are
\* made and dfs is called with op.
CallGetAllUpstream ==
    /\ pc = "t_input"
    /\ \E op \in DOMAIN operatorDependencies :
          /\ startOp' = op
          /\ callStack' = <<Frame(op, 0)>>
    /\ visited' = {}
    /\ resultSet' = {}
    /\ pc' = "t_dfs"
    /\ UNCHANGED <<dfsLog, upstream>>
    /\ UNCHANGED traversalUnchanged

\* Mutant: dfs does not test and does not set visited.
DfsEnterNoVisited ==
    /\ pc = "t_dfs"
    /\ callStack # << >>
    /\ Top.i = 0
    /\ dfsLog' = Append(dfsLog, Top.current)
    /\ callStack' = [callStack EXCEPT ![Len(callStack)].i = 1]
    /\ UNCHANGED <<pc, startOp, visited, resultSet, upstream>>
    /\ UNCHANGED traversalUnchanged

\* Lines 315-318: dfs returns at once for a visited operator, and marks
\* any other visited.
DfsEnter ==
    /\ pc = "t_dfs"
    /\ callStack # << >>
    /\ Top.i = 0
    /\ IF Top.current \in visited
       THEN /\ callStack' = Pop(callStack)
            /\ UNCHANGED <<visited, dfsLog>>
       ELSE /\ visited' = visited \cup {Top.current}
            /\ dfsLog' = Append(dfsLog, Top.current)
            /\ callStack' = [callStack EXCEPT ![Len(callStack)].i = 1]
    /\ UNCHANGED <<pc, startOp, resultSet, upstream>>
    /\ UNCHANGED traversalUnchanged

\* Lines 321-324: one pass of the loop over directDeps: the dependency is
\* put in resultSet and dfs is called with it.
DfsVisitDep ==
    /\ pc = "t_dfs"
    /\ callStack # << >>
    /\ Top.i >= 1
    /\ Top.i <= Len(MapGet(operatorDependencies, Top.current))
    /\ LET dep == operatorDependencies[Top.current][Top.i] IN
          /\ resultSet' = resultSet \cup {dep}
          /\ callStack' = Append([callStack EXCEPT ![Len(callStack)].i = @ + 1],
                                 Frame(dep, 0))
    /\ UNCHANGED <<pc, startOp, visited, dfsLog, upstream>>
    /\ UNCHANGED traversalUnchanged

\* Lines 320-326: current is no key of deps, or the loop is through
\* directDeps: dfs returns.
DfsReturn ==
    /\ pc = "t_dfs"
    /\ callStack # << >>
    /\ Top.i >= 1
    /\ Top.i > Len(MapGet(operatorDependencies, Top.current))
    /\ callStack' = Pop(callStack)
    /\ UNCHANGED <<pc, startOp, visited, resultSet, dfsLog, upstream>>
    /\ UNCHANGED traversalUnchanged

\* Lines 305-311: the outermost dfs has returned; the keys of resultSet
\* are sorted and returned.
ReturnUpstream ==
    /\ pc = "t_dfs"
    /\ callStack = << >>
    /\ upstream' = SortStrings(resultSet)
    /\ pc' = "t_returned"
    /\ UNCHANGED <<startOp, callStack, visited, resultSet, dfsLog>>
    /\ UNCHANGED traversalUnchanged

NextTraversal ==
    \/ CallGetAllUpstream
    \/ DfsEnter \/ DfsVisitDep \/ DfsReturn
    \/ ReturnUpstream

\* The call runs on a single goroutine that keeps executing.
SpecTraversal == InitTraversal /\ [][NextTraversal]_vars /\ WF_vars(NextTraversal)

\* ----------------------------------------- checkMachineNodeConsistency ---

\* The phases a machine reports; "" is a machine without status.phase.
Phases == {"Running", "running", "Failed", ""}

\* strings.ToLower on the phases.
ToLower(phase) ==
    CASE phase = "Running" -> "running"
      [] phase = "running" -> "running"
      [] phase = "Failed"  -> "failed"
      [] OTHER             -> ""

RECURSIVE SeqsUpTo(_, _)
SeqsUpTo(S, n) ==
    IF n = 0 THEN {<< >>}
    ELSE LET shorter == SeqsUpTo(S, n - 1)
         IN  shorter \cup {Append(q, x) : q \in shorter, x \in S}

\* The machines of a list, each given by its phase; a machine is named by
\* its index.
MachineLists == SeqsUpTo(Phases, MaxMachines)

\* The nodes of a list, each given by what e2enode.IsNodeSchedulable says
\* of it; a node is named by its index.
NodeLists == SeqsUpTo(BOOLEAN, MaxNodes)

\* What List returns for the machines: a list and no error, or an error
\* and no list.
MachineFetches ==
    {[list |-> SomeList(l), err |-> FALSE] : l \in MachineLists}
    \cup {[list |-> NilList, err |-> TRUE]}

MachinesCase == <<"all machines should be in Running state">>

NodesCase == <<"all nodes should be ready">>

NodeCountCase == <<"node count should match or exceed machine count">>

\* Lines 447-455: the machines not running, as (name, phase).
notRunningOf(machines) ==
    LET bad == {i \in DOMAIN machines : ToLower(machines[i]) # "running"}
        ord == SortStrings(bad)
    IN  [k \in 1..Len(ord) |-> <<ord[k], machines[ord[k]]>>]

\* Lines 539-550.
getUnreadyOrUnschedulableNodeNames(allNodes) ==
    SortStrings({i \in DOMAIN allNodes.Items : ~allNodes.Items[i]})

\* What the other actions of the check leave alone.
machineNodeUnchanged ==
    <<operatorDependencies, items, operatorsMap, finalOperatorDependencies,
      coreOperators, dependencies, sortedCoreOperators, sortErr,
      finalOperators, idx, failedOperators, report, ret, traversalVars>>

\* Line 88: the check is called with the suite Run has just made.
InitMachineNode ==
    /\ pc = "mn_case1"
    /\ operatorDependencies = << >>
    /\ items = << >>
    /\ operatorsMap = << >>
    /\ finalOperatorDependencies = << >>
    /\ coreOperators = << >>
    /\ dependencies = << >>
    /\ sortedCoreOperators = << >>
    /\ sortErr = "nil"
    /\ finalOperators = << >>
    /\ idx = 1
    /\ failedOperators = {}
    /\ suite = emptySuite
    /\ report = noReport
    /\ ret = "running"
    /\ TraversalIdle
    /\ MachineNodeIdle

\* The suite after case 1 (lines 436-467) for what List returned.
machineCase(s, fetched) ==
    LET s1 == IF fetched.err
              THEN tcAppend(s, MachinesCase, <<"Could not list machines">>, << >>)
              ELSE s
        machines == fetched.list.Items
        bad == notRunningOf(machines)
    IN  IF ~fetched.list.isNil /\ Len(machines) > 0
        THEN IF Len(bad) = 0
             THEN tcAppend(s1, MachinesCase, << >>, << >>)
             ELSE tcAppend(s1, MachinesCase,
                           <<"Machines not in Running state", Len(bad), Len(machines), bad>>,
                           << >>)
        ELSE tcAppend(s1, MachinesCase, << >>,
                      <<"No Machines found or could not retrieve list. Skipping Machine check.">>)

\* Mutant: the function returns when the machines cannot be listed.
MachineCheckReturnsOnError ==
    /\ pc = "mn_case1"
    /\ \E fetched \in MachineFetches :
          /\ machineList' = fetched.list
          /\ runningMachineCount' =
                Len(fetched.list.Items) - Len(notRunningOf(fetched.list.Items))
          /\ notRunningMachines' = notRunningOf(fetched.list.Items)
          /\ suite' = IF fetched.err
                      THEN tcAppend(suite, MachinesCase, <<"Could not list machines">>, << >>)
                      ELSE machineCase(suite, fetched)
          /\ pc' = IF fetched.err THEN "mn_returned" ELSE "mn_case2"
    /\ UNCHANGED <<nodeList, notReadyNodes>>
    /\ UNCHANGED machineNodeUnchanged

\* Lines 428-471, case 1: the machines are listed; a failed list call
\* records a failure and the function goes on; then the machines are
\* counted and the case is recorded as passed, failed or skipped.
MachineCheck ==
    /\ pc = "mn_case1"
    /\ \E fetched \in MachineFetches :
          /\ machineList' = fetched.list
          /\ runningMachineCount' =
                Len(fetched.list.Items) - Len(notRunningOf(fetched.list.Items))
          /\ notRunningMachines' = notRunningOf(fetched.list.Items)
          /\ suite' = machineCase(suite, fetched)
    /\ pc' = "mn_case2"
    /\ UNCHANGED <<nodeList, notReadyNodes>>
    /\ UNCHANGED machineNodeUnchanged

\* Lines 473-490, case 2: the nodes are listed and the case is recorded as
\* passed or failed.
NodeCheck ==
    /\ pc = "mn_case2"
    /\ \E l \in NodeLists :
          LET bad == getUnreadyOrUnschedulableNodeNames(SomeList(l)) IN
          /\ nodeList' = SomeList(l)
          /\ notReadyNodes' = bad
          /\ suite' = IF Len(bad) = 0
                      THEN tcAppend(suite, NodesCase, << >>, << >>)
                      ELSE tcAppend(suite, NodesCase,
                                    <<"Nodes not Ready or unscheduable", Len(bad), Len(l), bad>>,
                                    << >>)
    /\ pc' = "mn_case3"
    /\ UNCHANGED <<machineList, runningMachineCount, notRunningMachines>>
    /\ UNCHANGED machineNodeUnchanged

\* Lines 475-480: the nodes cannot be listed: a failure is recorded and
\* the function returns.
NodeListFail ==
    /\ pc = "mn_case2"
    /\ suite' = tcAppend(suite, NodesCase, <<"Failed to list nodes">>, << >>)
    /\ pc' = "mn_returned"
    /\ UNCHANGED machineNodeVars
    /\ UNCHANGED machineNodeUnchanged

\* Lines 492-519, case 3: the ready nodes are compared with the running
\* machines.
NodeCountCheck ==
    /\ pc = "mn_case3"
    /\ LET totalNodeCount == Len(nodeList.Items)
           readyNodeCount == totalNodeCount - Len(notReadyNodes)
       IN  suite' = IF readyNodeCount >= runningMachineCount
                    THEN tcAppend(suite, NodeCountCase, << >>, << >>)
                    ELSE tcAppend(suite, NodeCountCase,
                                  <<"Ready and Scheduable Nodes count is less than Running Machine count",
                                    readyNodeCount, runningMachineCount>>,
                                  << >>)
    /\ pc' = "mn_returned"
    /\ UNCHANGED machineNodeVars
    /\ UNCHANGED machineNodeUnchanged

NextMachineNode ==
    \/ MachineCheck
    \/ NodeCheck \/ NodeListFail
    \/ NodeCountCheck

SpecMachineNode == InitMachineNode /\ [][NextMachineNode]_vars

\* ------------------------------------------ properties of the graph ----

\* The edges a dependency map declares among the operators of ops.
Edges(deps, ops) ==
    {e \in ops \X ops : stringInSlice(e[2], MapGet(deps, e[1]))}

\* What is reachable from the set S by at most n further edges of rel.
RECURSIVE Within(_, _, _)
Within(rel, S, n) ==
    IF n = 0 THEN S
    ELSE Within(rel, S \cup {e[2] : e \in {f \in rel : f[1] \in S}}, n - 1)

\* What is reachable from a by one or more edges of rel (a path that
\* visits no operator twice has at most Cardinality(Names) edges).
ReachableFrom(rel, a) ==
    Within(rel, {e[2] : e \in {f \in rel : f[1] = a}}, Cardinality(Names))

Reaches(rel, a, b) == b \in ReachableFrom(rel, a)

HasCycle(rel) == \E a \in Names : Reaches(rel, a, a)

\* b occurs in seq, a occurs in seq, and every occurrence of b is at a
\* strictly smaller index than every occurrence of a.
Precedes(seq, b, a) ==
    /\ \E i \in DOMAIN seq : seq[i] = b
    /\ \E j \in DOMAIN seq : seq[j] = a
    /\ \A i, j \in DOMAIN seq : (seq[i] = b /\ seq[j] = a) => i < j

\* seq lists every element of S exactly once and nothing else.
IsPermutation(seq, S) ==
    /\ Range(seq) = S
    /\ Len(seq) = Cardinality(S)

SortReturned == pc \in {"g_sorted", "g_sorted_expanded"}

\* C1: whenever TopologicalSort(operators, deps) returns an order without
\* error, every dependency B of every operator A, with A and B both in
\* operators, stands at a strictly smaller index than A in the order.
C1_TopologicalValidity ==
    (SortReturned /\ sortErr = "nil") =>
        \A A \in Range(coreOperators) :
            \A B \in Range(MapGet(dependencies, A)) \cap Range(coreOperators) :
                Precedes(sortedCoreOperators, B, A)

\* C1 witness: a sort of three operators returned an order that is not the
\* input order, with one operator having two dependencies in the list.
C1_Witness ==
    /\ SortReturned /\ sortErr = "nil"
    /\ Len(coreOperators) = 3
    /\ sortedCoreOperators # coreOperators
    /\ \E A \in Range(coreOperators) :
          Cardinality(Range(MapGet(dependencies, A)) \cap Range(coreOperators)) = 2

\* C2: for an expanded map and operators equal to its key domain,
\* TopologicalSort returns the cycle error with no order at all exactly
\* when the dependency relation among the operators has a cycle (a
\* self-reference included); otherwise it returns no error and a
\* permutation of operators.
C2_CycleIffError ==
    (pc = "g_sorted_expanded") =>
        IF HasCycle(Edges(dependencies, Range(coreOperators)))
        THEN sortErr # "nil" /\ sortedCoreOperators = << >>
        ELSE sortErr = "nil"
             /\ IsPermutation(sortedCoreOperators, Range(coreOperators))

\* C2 witness: a cycle error where one operator of the three has no
\* dependency at all (so the loop did sort a part), and no order returned.
C2_Witness ==
    /\ pc = "g_sorted_expanded"
    /\ sortErr # "nil"
    /\ sortedCoreOperators = << >>
    /\ Len(coreOperators) = 3
    /\ \E op \in Range(coreOperators) : MapGet(dependencies, op) = << >>

\* C3: the expanded map has as keys exactly the keys and the dependency
\* values of the direct map, and lists for every key exactly the operators
\* reachable from it by one or more direct edges, each once; an operator
\* that is only a dependency value has the empty list.
C3_ClosureExact ==
    (pc \in {"g_expanded", "g_sorted_expanded"}) =>
        /\ DOMAIN finalOperatorDependencies = coreSetOf(operatorDependencies)
        /\ \A A \in DOMAIN finalOperatorDependencies :
              /\ Range(finalOperatorDependencies[A]) =
                    ReachableFrom(Edges(operatorDependencies, Names), A)
              /\ Len(finalOperatorDependencies[A]) =
                    Cardinality(Range(finalOperatorDependencies[A]))
              /\ (A \notin DOMAIN operatorDependencies) =>
                    finalOperatorDependencies[A] = << >>

\* C3 witness: an expansion where one operator gained a transitive
\* dependency it does not declare, and another is only a dependency value.
C3_Witness ==
    /\ pc = "g_expanded"
    /\ \E A \in DOMAIN operatorDependencies :
          Len(finalOperatorDependencies[A]) > Len(operatorDependencies[A])
    /\ \E L \in DOMAIN finalOperatorDependencies : L \notin DOMAIN operatorDependencies

\* ------------------------------------------------- properties of Run ----

\* The dependency domain: the keys and the dependency values of the table.
CoreDomain == coreSetOf(operatorDependencies)

\* The direct and transitive dependencies the table gives an operator.
TransDeps(X) == ReachableFrom(Edges(operatorDependencies, Names), X)

Present(X) == X \in DOMAIN items

\* The indices of the test cases recorded for an operator.
CasesOf(X) == {i \in DOMAIN suite.TestCases : suite.TestCases[i].Name = tcName(X)}

IsPassed(tc) == tc.FailureOutput = << >> /\ tc.SkipMessage = << >>

IsFailed(tc) == tc.FailureOutput # << >>

IsNotFoundSkipped(tc) ==
    /\ tc.FailureOutput = << >>
    /\ tc.SkipMessage # << >>
    /\ tc.SkipMessage[1] = "not found in the cluster, skipping"

IsDependencySkipped(tc) ==
    /\ tc.FailureOutput = << >>
    /\ tc.SkipMessage # << >>
    /\ tc.SkipMessage[1] = "Precondition operator failed, skipping"

HasOutcome(X, P(_)) == \E i \in CasesOf(X) : P(suite.TestCases[i])

\* The status the listed record of X gives for a condition type: that of
\* its entry of the type, the empty string when it has none.
ListedStatus(X, type) ==
    IF \E i \in DOMAIN items[X] : items[X][i].type = type
    THEN items[X][CHOOSE i \in DOMAIN items[X] : items[X][i].type = type].status
    ELSE ""

Healthy(X) ==
    /\ ListedStatus(X, "Available") = "True"
    /\ ListedStatus(X, "Degraded") = "False"
    /\ ListedStatus(X, "Progressing") = "False"

\* C4: an operator present in the cluster with a direct or transitive
\* dependency classified Failed is Skipped with a message naming one of its
\* dependencies that is in the failure set, is not classified Failed and
\* is not in the failure set.
C4_CascadingSkip ==
    \A X \in Names : \A i \in CasesOf(X) :
        (Present(X) /\ \E D \in TransDeps(X) : HasOutcome(D, IsFailed)) =>
            /\ IsDependencySkipped(suite.TestCases[i])
            /\ suite.TestCases[i].SkipMessage[2] \in TransDeps(X) \cap failedOperators
            /\ ~IsFailed(suite.TestCases[i])
            /\ X \notin failedOperators

\* C4 witness: a chain C -> B -> A in which C does not declare A, A is
\* Failed and B and C are both Skipped for a failed dependency.
C4_Witness ==
    /\ pc = "done"
    /\ \E A, B, C \in DOMAIN operatorDependencies :
          /\ stringInSlice(A, operatorDependencies[B])
          /\ stringInSlice(B, operatorDependencies[C])
          /\ ~stringInSlice(A, operatorDependencies[C])
          /\ HasOutcome(A, IsFailed)
          /\ HasOutcome(B, IsDependencySkipped)
          /\ HasOutcome(C, IsDependencySkipped)

\* C5: a core operator absent from the cluster is Skipped with the not
\* found message and is not in the failure set; and a present core operator
\* whose dependencies are each either absent from the cluster or Passed is
\* not skipped but classified by its own conditions.
C5_NotFoundIsNotFailure ==
    /\ \A X \in CoreDomain : \A i \in CasesOf(X) :
          ~Present(X) =>
              /\ IsNotFoundSkipped(suite.TestCases[i])
              /\ suite.TestCases[i].SkipMessage[2] = X
              /\ X \notin failedOperators
    /\ \A Y \in CoreDomain : \A i \in CasesOf(Y) :
          (Present(Y) /\ \A D \in TransDeps(Y) : ~Present(D) \/ HasOutcome(D, IsPassed)) =>
              IF Healthy(Y) THEN IsPassed(suite.TestCases[i])
                            ELSE IsFailed(suite.TestCases[i])

\* C5 witness: a present operator Passed and another Failed, each having a
\* dependency that was not found and is recorded as such.
C5_Witness ==
    /\ pc = "done"
    /\ \E Y, Z \in CoreDomain :
          /\ HasOutcome(Y, IsPassed)
          /\ HasOutcome(Z, IsFailed)
          /\ \E D \in TransDeps(Y) : ~Present(D) /\ HasOutcome(D, IsNotFoundSkipped)
          /\ \E D \in TransDeps(Z) : ~Present(D) /\ HasOutcome(D, IsNotFoundSkipped)

\* C6: an operator present in the cluster with no dependency in the failure
\* set is Passed exactly when Available is "True", Degraded is "False" and
\* Progressing is "False"; with any other statuses it is Failed and in the
\* failure set.
C6_ExactConditionMatch ==
    \A X \in Names : \A i \in CasesOf(X) :
        (Present(X) /\ TransDeps(X) \cap failedOperators = {}) =>
            IF Healthy(X)
            THEN IsPassed(suite.TestCases[i])
            ELSE IsFailed(suite.TestCases[i]) /\ X \in failedOperators

\* C6 witness: operators Failed for Progressing "Unknown", for a status
\* "true" and for a missing Progressing condition, none having a failed
\* dependency.
C6_Witness ==
    /\ pc = "done"
    /\ \E X, Y, Z \in DOMAIN items :
          /\ TransDeps(X) \cap failedOperators = {}
          /\ TransDeps(Y) \cap failedOperators = {}
          /\ TransDeps(Z) \cap failedOperators = {}
          /\ ListedStatus(X, "Progressing") = "Unknown" /\ HasOutcome(X, IsFailed)
          /\ ListedStatus(Y, "Available") = "true" /\ HasOutcome(Y, IsFailed)
          /\ Len(items[Z]) = 2 /\ HasOutcome(Z, IsFailed)

\* The evaluation loop of Run has gone through the whole final list.
EvaluationComplete == LoopDone \/ pc = "done"

OutcomeCount(tc) ==
    Cardinality({k \in 1..4 :
        \/ k = 1 /\ IsNotFoundSkipped(tc)
        \/ k = 2 /\ IsDependencySkipped(tc)
        \/ k = 3 /\ IsPassed(tc)
        \/ k = 4 /\ IsFailed(tc)})

\* C7: when the evaluation is complete every operator of the dependency
\* domain or of the cluster has exactly one test case, whose outcome is
\* exactly one of NotFound-Skipped, Dependency-Skipped, Passed and Failed,
\* and no other operator has a test case.
C7_OneOutcomeEach ==
    EvaluationComplete =>
        /\ \A X \in CoreDomain \cup DOMAIN items :
              /\ Cardinality(CasesOf(X)) = 1
              /\ \A i \in CasesOf(X) : OutcomeCount(suite.TestCases[i]) = 1
        /\ \A X \in Names \ (CoreDomain \cup DOMAIN items) : CasesOf(X) = {}

\* C7 witness: a complete evaluation of three operators: a core operator
\* that is present, one that is not found, and one outside the domain.
C7_Witness ==
    /\ pc = "done"
    /\ Len(suite.TestCases) = 3
    /\ \E X \in CoreDomain : Present(X)
    /\ \E X \in CoreDomain : ~Present(X)
    /\ \E X \in DOMAIN items : X \notin CoreDomain

\* C8: a test case of an operator outside the dependency domain comes after
\* a test case of every core operator, and is Passed or Failed by the
\* condition rule, never Skipped.
C8_ExtrasLastNeverSkipped ==
    \A X \in DOMAIN items \ CoreDomain : \A i \in CasesOf(X) :
        /\ \A C \in CoreDomain : \E j \in CasesOf(C) : j < i
        /\ IF Healthy(X) THEN IsPassed(suite.TestCases[i])
                         ELSE IsFailed(suite.TestCases[i])

\* C8 witness: an operator outside the domain Passed and another Failed,
\* after a core operator Failed.
C8_Witness ==
    /\ pc = "done"
    /\ \E C \in CoreDomain : HasOutcome(C, IsFailed)
    /\ \E X, Y \in DOMAIN items \ CoreDomain :
          HasOutcome(X, IsPassed) /\ HasOutcome(Y, IsFailed)

\* C9: with a cycle in the dependency table Run never enters the
\* evaluation loop, records no test case of an operator, serializes no
\* report, and returns nil.
C9_CycleAborts ==
    \/ /\ pc \notin {"eval", "done"}
       /\ \A X \in Names : CasesOf(X) = {}
       /\ report = noReport
       /\ ret \in {"running", "nil"}
       /\ (pc = "aborted" <=> ret = "nil")
    \/ ~HasCycle(Edges(operatorDependencies, Names))

\* C9 witness: Run returned from the failed sort with operators listed.
C9_Witness ==
    /\ HasCycle(Edges(operatorDependencies, Names))
    /\ pc = "aborted"
    /\ sortErr # "nil"
    /\ ret = "nil"
    /\ items # << >>

\* Every member of the failure set has a test case, and all its test cases
\* are Failed.
FailureSetIsFailed ==
    \A X \in failedOperators :
        /\ CasesOf(X) # {}
        /\ \A i \in CasesOf(X) : IsFailed(suite.TestCases[i])

\* C10: the failure set is empty when the evaluation loop starts, never
\* loses a member, and holds only operators whose recorded outcome is
\* Failed.
C10_FailureSetMonotone ==
    /\ []((pc = "eval" /\ idx = 1) => failedOperators = {})
    /\ [][failedOperators \subseteq failedOperators']_vars
    /\ []FailureSetIsFailed

\* C10 witness: two operators in the failure set, and a Passed or Skipped
\* operator outside it.
C10_Witness ==
    /\ pc = "done"
    /\ Cardinality(failedOperators) = 2
    /\ \E X \in Names \ failedOperators :
          \/ HasOutcome(X, IsPassed)
          \/ HasOutcome(X, IsDependencySkipped)
          \/ HasOutcome(X, IsNotFoundSkipped)

\* C11: when the evaluation loop classifies an operator, each of its direct
\* and transitive dependencies already has its test case: in the suite every
\* test case of an operator stands after a test case of each of its
\* dependencies, and the item the loop is about to classify has all its
\* dependencies recorded.
C11_DependenciesClassifiedFirst ==
    /\ \A X \in Names : \A i \in CasesOf(X) :
          \A D \in TransDeps(X) : \E j \in CasesOf(D) : j < i
    /\ InLoop =>
          \A D \in TransDeps(finalOperators[idx].Name) : CasesOf(D) # {}

\* C11 witness: an operator skipped for a failed dependency whose name is
\* lexically greater than its own, so the sorted order is not the lexical
\* one, and which has a second dependency it does not declare.
C11_Witness ==
    /\ pc = "done"
    /\ \E X \in DOMAIN operatorDependencies :
          /\ \E D \in TransDeps(X) : D > X /\ HasOutcome(D, IsFailed)
          /\ \E D \in TransDeps(X) : ~stringInSlice(D, operatorDependencies[X])
          /\ HasOutcome(X, IsDependencySkipped)

\* The operators of the cluster that are outside the dependency domain.
Extras == DOMAIN items \ CoreDomain

\* C12 as stated: an operator outside the dependency domain that is
\* classified Failed is not in the failure set.
C12_ExtraFailedNotInFailureSet ==
    \A X \in Extras : HasOutcome(X, IsFailed) => X \notin failedOperators

\* C12, amended: an operator outside the dependency domain that is
\* classified Failed is in the failure set like any other failed operator,
\* but no operator is ever skipped because of it: every Dependency-Skipped
\* message names an operator of the dependency domain, and no operator has
\* an operator outside the domain among its dependencies.
C12_ExtraFailureNeverConsulted ==
    /\ \A X \in Extras : HasOutcome(X, IsFailed) => X \in failedOperators
    /\ \A i \in DOMAIN suite.TestCases :
          IsDependencySkipped(suite.TestCases[i]) =>
              suite.TestCases[i].SkipMessage[2] \in CoreDomain
    /\ \A Y \in Names : TransDeps(Y) \cap Extras = {}

\* C12 witness: an operator outside the domain is Failed and in the failure
\* set, and an operator classified after it is Passed.
C12_Witness ==
    /\ pc = "done"
    /\ \E X, Y \in Extras :
          /\ HasOutcome(X, IsFailed)
          /\ X \in failedOperators
          /\ HasOutcome(Y, IsPassed)
          /\ \E i \in CasesOf(X) : \E j \in CasesOf(Y) : i < j

\* C16: a core operator absent from the cluster is recorded as not found,
\* never as skipped for a dependency, also when one of its dependencies is
\* in the failure set; a Dependency-Skipped test case is only ever that of
\* an operator present in the cluster.
C16_NotFoundTakesPrecedence ==
    /\ \A X \in CoreDomain : \A i \in CasesOf(X) :
          ~Present(X) =>
              /\ IsNotFoundSkipped(suite.TestCases[i])
              /\ ~IsDependencySkipped(suite.TestCases[i])
    /\ \A X \in Names : \A i \in CasesOf(X) :
          IsDependencySkipped(suite.TestCases[i]) => Present(X)

\* C16 witness: an absent core operator with a dependency in the failure
\* set is recorded as not found.
C16_Witness ==
    /\ pc = "done"
    /\ \E X \in CoreDomain :
          /\ ~Present(X)
          /\ TransDeps(X) \cap failedOperators # {}
          /\ HasOutcome(X, IsNotFoundSkipped)

\* What the table and the listed records alone say about an operator: it
\* is present, none of its dependencies fails by this rule, and its
\* conditions are not the healthy ones.
RECURSIVE FailsByRule(_)
FailsByRule(D) ==
    /\ Present(D)
    /\ ~Healthy(D)
    /\ \A E \in TransDeps(D) : ~FailsByRule(E)

\* C17: the operator named in a Dependency-Skipped message is the lexically
\* smallest dependency of the skipped operator that is in the failure set,
\* and it is a function of the table and of the listed records only: the
\* smallest dependency that fails by the rule, whatever order the run gave
\* the operators outside the domain.
C17_SkipNamesSmallestFailed ==
    \A X \in Names : \A i \in CasesOf(X) :
        IsDependencySkipped(suite.TestCases[i]) =>
            /\ suite.TestCases[i].SkipMessage[2] =
                   Min(TransDeps(X) \cap failedOperators)
            /\ suite.TestCases[i].SkipMessage[2] =
                   Min({D \in TransDeps(X) : FailsByRule(D)})

\* C17 witness: an operator skipped with two of its dependencies in the
\* failure set.
C17_Witness ==
    /\ pc = "done"
    /\ \E X \in Names :
          /\ HasOutcome(X, IsDependencySkipped)
          /\ Cardinality(TransDeps(X) \cap failedOperators) = 2

\* The operators of the list that have no dependency inside the list.
ZeroInDegree(operators, deps) ==
    {A \in Range(operators) :
        Range(MapGet(deps, A)) \cap Range(operators) = {}}

\* The first n elements of a sequence (the whole of it when it is shorter).
Prefix(seq, n) == SubSeq(seq, 1, Min({n, Len(seq)}))

IsAscending(seq) == \A i, j \in DOMAIN seq : i < j => seq[i] < seq[j]

\* C15 as stated: for any input list, an order returned without error
\* begins with exactly the operators that have no dependency inside the
\* list, in ascending lexical order.
C15_SeedsInLexicalOrder ==
    (SortReturned /\ sortErr = "nil") =>
        LET Z == ZeroInDegree(coreOperators, dependencies) IN
        Prefix(sortedCoreOperators, Cardinality(Z)) = SortStrings(Z)

\* C15, amended: an order returned without error begins with exactly the
\* operators that have no dependency inside the list, in the order in which
\* the input list has them; that is ascending lexical order when the input
\* list is ascending, as the list Run passes is.
C15_SeedsInInputOrder ==
    (SortReturned /\ sortErr = "nil") =>
        LET Z == ZeroInDegree(coreOperators, dependencies) IN
        /\ Prefix(sortedCoreOperators, Cardinality(Z)) =
               SelectSeq(coreOperators, LAMBDA A : A \in Z)
        /\ IsAscending(coreOperators) =>
               Prefix(sortedCoreOperators, Cardinality(Z)) = SortStrings(Z)

\* C15 witness: a list of three operators that is not ascending, two of
\* them without dependency in the list and given in descending order, and
\* an order returned for it.
C15_Witness ==
    /\ SortReturned /\ sortErr = "nil"
    /\ Len(coreOperators) = 3
    /\ LET Z == ZeroInDegree(coreOperators, dependencies) IN
       /\ Cardinality(Z) = 2
       /\ ~IsAscending(SelectSeq(coreOperators, LAMBDA A : A \in Z))
       /\ Len(sortedCoreOperators) = 3

\* ------------------------------------------ properties of the traversal --

NoDuplicates(seq) == \A i, j \in DOMAIN seq : i # j => seq[i] # seq[j]

\* C14: for every direct-dependency table, with self-references and
\* cycles, a call of getAllUpstreamDependencies marks each operator visited
\* at most once, never has more calls of dfs active than there are
\* operators plus one, always returns, and returns the sorted set of the
\* operators reached (there is no error to signal).
C14_TraversalTerminates ==
    /\ [](NoDuplicates(dfsLog))
    /\ [](Len(callStack) <= Cardinality(coreSetOf(operatorDependencies)) + 1)
    /\ (pc = "t_dfs") ~> (pc = "t_returned")
    /\ [](pc = "t_returned" =>
            upstream = getAllUpstreamDependencies(startOp, operatorDependencies))

\* C14 witness: a call returned for an operator that is on a cycle, in a
\* table where some operator lists itself, after visiting three operators.
C14_Witness ==
    /\ pc = "t_returned"
    /\ Reaches(Edges(operatorDependencies, Names), startOp, startOp)
    /\ \E A \in DOMAIN operatorDependencies :
          stringInSlice(A, operatorDependencies[A])
    /\ Len(dfsLog) = 3
    /\ startOp \in Range(upstream)

\* ------------------------- properties of checkMachineNodeConsistency ----

\* The indices of the test cases recorded under a name.
CasesNamed(name) ==
    {i \in DOMAIN suite.TestCases : suite.TestCases[i].Name = name}

CheckNames == {MachinesCase, NodesCase, NodeCountCase}

\* C13 as stated: when checkMachineNodeConsistency has returned, each of
\* the three checks has recorded a test case, whatever failed in another
\* check, a failed machine-list or node-list call included.
C13_AllChecksRecorded ==
    pc = "mn_returned" => \A name \in CheckNames : CasesNamed(name) # {}

\* C13, amended: the machine check always records a test case under its
\* name, and a failure in it (a failed machine-list call included) does not
\* keep the node check from recording its own; a failed node check does not
\* keep the node count check from recording its own; but a failed
\* node-list call records the failed node test case and returns, so that
\* the node count check records nothing.
C13_OnlyNodeListFailureBlocks ==
    /\ pc \in {"mn_case2", "mn_case3", "mn_returned"} =>
          CasesNamed(MachinesCase) # {}
    /\ pc \in {"mn_case3", "mn_returned"} => CasesNamed(NodesCase) # {}
    /\ pc = "mn_returned" =>
          IF nodeList.isNil
          THEN /\ CasesNamed(NodeCountCase) = {}
               /\ \A i \in CasesNamed(NodesCase) : IsFailed(suite.TestCases[i])
          ELSE CasesNamed(NodeCountCase) # {}
    /\ \A i \in DOMAIN suite.TestCases :
          pc \in {"mn_case2", "mn_case3", "mn_returned"} =>
              suite.TestCases[i].Name \in CheckNames

\* C13 witness: the machine list call failed, a node is not ready, and all
\* three checks have a test case, those of the first two being Failed.
C13_Witness ==
    /\ pc = "mn_returned"
    /\ machineList.isNil
    /\ \E i \in CasesNamed(MachinesCase) : IsFailed(suite.TestCases[i])
    /\ ~nodeList.isNil
    /\ notReadyNodes # << >>
    /\ \E i \in CasesNamed(NodesCase) : IsFailed(suite.TestCases[i])
    /\ CasesNamed(NodeCountCase) # {}

\* C18: checkMachineNodeConsistency records at most one test case under
\* each of the three check names, on every path.
C18_OneCasePerCheckName ==
    pc \in {"mn_case1", "mn_case2", "mn_case3", "mn_returned"} =>
        \A name \in CheckNames : Cardinality(CasesNamed(name)) <= 1

====
